---- MODULE Spec2Model ----
(***************************************************************************)
(* Model of maven-pom-downloader (src/main.js, first script variant,       *)
(* lines 1-426): the dependency walker downloadDependency/main, the file   *)
(* fetcher downloadFile and the version resolver resolveVersion /          *)
(* parseVersionRange.                                                      *)
(*                                                                         *)
(* Three specifications share the module:                                  *)
(*   Spec             the walker, one action per event-loop callback;      *)
(*   FetchSpec        one downloadFile call, down to the write stream's    *)
(*                    open/finish/close and the thread-pool unlink;        *)
(*   ResolveSpec      the pure functions on version expressions.           *)
(* Strings that the code slices are sequences of one-character strings.    *)
(***************************************************************************)
EXTENDS Integers, Sequences, FiniteSets, TLC

VARIABLES
    graph,      \* the remote repository's descriptors and the root pom.xml (input)
    cached,     \* the coordinates whose files an earlier run left behind (input)
    stale,      \* the files an earlier run left behind zero-length (input)
    disk,       \* the repository directory: file -> "absent" | "empty" | "full"
    visited,    \* downloadedDependencies (main.js:24)
    calls       \* activations of the async functions: id -> record. << >> is
                \* main(); <<i>> is the downloadDependency call for the i-th
                \* root dependency, Append(p, i) the call p made for the i-th
                \* dependency of its descriptor. Only calls that got past the
                \* visited check are recorded.

VARIABLES
    pom,        \* a descriptor as xml2js delivers it: its property table and the
                \* raw <version> of its dependency entry (input)
    rpc,        \* "input" | "parsed" (after parsePomXml) | "listed" (after getDependencies)
    parsed,     \* the entry's version array after parsePomXml
    handed,     \* the list getDependencies returns
    target,     \* what downloadDependency derives from the handed entry up to
                \* its first await: identity key, actual version, path
    rootProperties, \* the property table of ./pom.xml, parsed before (main.js:365)
    pomObj,     \* a parsed manifest as parsePomXml resolves it: the shape of its
                \* dependency block and the entries in it (input)
    dependencies \* the array getDependencies builds from pomObj (main.js:116)

VARIABLES
    net,        \* the request downloadFile is waiting on: "response" (no
                \* response yet), "body" (a 200 being piped), "closed"
    statuses,   \* the status codes received so far, one per request issued
    bodyLen,    \* chunks in the body of the 200 response
    delivered,  \* chunks of it that 'data' events have handed to the pipe
    stream,     \* the fs.WriteStream `file` (main.js:251)
    pool,       \* thread-pool operations issued and not yet run
    dest,       \* whether a file exists at the destination path
    promise,    \* "pending" | "resolved" | "notFound" | "httpStatus" | "error"
    crashed,    \* an 'error' event had no listener: uncaught exception
    socket      \* "live" | "stalled" (the peer has stopped sending) |
                \* "timedOut" (stalled, and the 'timeout' event was emitted)

walkVars == <<graph, cached, stale, disk, visited, calls>>

fetchVars ==
    <<net, statuses, bodyLen, delivered, stream, pool, dest, promise, crashed, socket>>

resolveVars == <<pom, rpc, parsed, handed, target, rootProperties, pomObj, dependencies>>

vars == <<walkVars, resolveVars, fetchVars>>

(***************************************************************************)
(* Bounds and inputs                                                       *)
(***************************************************************************)

\* main.js:21 sets 5; the walker is parametric in the ceiling and the model
\* runs it with a small one so that a list longer than one chunk stays small.
CONCURRENT_DOWNLOADS == 2

\* Coordinate identity keys "group:artifact:version" (main.js:159).
Keys == {"A", "B", "C", "D"}

Kinds == {"jar", "pom"}

Files == Keys \X Kinds

NoDeps == [k \in Keys |-> <<>>]

\* root: dependencies of ./pom.xml as getDependencies returns them;
\* deps: the same for each coordinate's descriptor; bad: descriptors that
\* xml2js rejects.
\* Wide: a root list longer than one chunk, a parent (A) with two chunks,
\* a diamond (D below A and B) and a cycle (A -> D -> A).
GraphWide ==
    [root |-> <<"A", "B", "C">>,
     deps |-> [NoDeps EXCEPT !["A"] = <<"B", "C", "D">>,
                             !["B"] = <<"D">>,
                             !["D"] = <<"A">>],
     bad  |-> {}]

\* Cycle: the synthetic graph A -> B -> A.
GraphCycle ==
    [root |-> <<"A">>,
     deps |-> [NoDeps EXCEPT !["A"] = <<"B">>, !["B"] = <<"A">>],
     bad  |-> {}]

\* Broken: a malformed descriptor (B) between siblings.
GraphBroken ==
    [root |-> <<"A", "B", "C">>,
     deps |-> [NoDeps EXCEPT !["A"] = <<"D">>, !["B"] = <<"D">>],
     bad  |-> {"B"}]

Graphs == {GraphWide, GraphCycle, GraphBroken}

\* The repository directory a run starts from: every coordinate either
\* fully cached by an earlier run (both files there, non-empty) or missing.
InitialDisk(c) == [f \in Files |-> IF f[1] \in c THEN "full" ELSE "absent"]

\* Zero-length files an earlier run can have left: a binary or a descriptor
\* of a coordinate that is not fully cached (a 200 with an empty body, or a
\* failed download whose file was created after its unlink).
StaleChoices(c) ==
    {s \in {{}, {<<"A", "jar">>}, {<<"A", "pom">>}} : \A f \in s : f[1] \notin c}

\* The repository directory when main starts.
DiskAtStart(c, s) == [f \in Files |-> IF f \in s THEN "empty" ELSE InitialDisk(c)[f]]

(***************************************************************************)
(* Helpers                                                                 *)
(***************************************************************************)

Min(a, b) == IF a < b THEN a ELSE b

MainId == << >>

Parent(id) == SubSeq(id, 1, Len(id) - 1)

\* A batching whose chunks take one entry more than the ceiling.
ChunkWide(L, b) ==
    SubSeq(L, (b - 1) * CONCURRENT_DOWNLOADS + 1,
              Min(b * CONCURRENT_DOWNLOADS + 1, Len(L)))

\* A batching that leaves out the last entry of every chunk.
ChunkLossy(L, b) ==
    SubSeq(L, (b - 1) * CONCURRENT_DOWNLOADS + 1,
              Min(b * CONCURRENT_DOWNLOADS, Len(L)) - 1)

\* main.js:231-234 and 379-382: chunk number b (from 1) of list L,
\* transitiveDeps.slice(i, i + CONCURRENT_DOWNLOADS) with i = (b-1)*N.
Chunk(L, b) ==
    SubSeq(L, (b - 1) * CONCURRENT_DOWNLOADS + 1,
              Min(b * CONCURRENT_DOWNLOADS, Len(L)))

\* Number of chunks the for loop at main.js:232 pushes.
NumChunks(L) ==
    (Len(L) + CONCURRENT_DOWNLOADS - 1) \div CONCURRENT_DOWNLOADS

\* main.js:176-184: the local file of a coordinate.
LocalFile(k, kind) == <<k, kind>>

\* A walker that forgets to record the key.
MarkVisitedLost(v, k) == v

\* A walker whose set keeps the latest key only.
MarkVisitedLatest(v, k) == {k}

\* main.js:166: downloadedDependencies.add(dependencyKey)
MarkVisited(v, k) == v \cup {k}

\* An activation record. pc: "start" (main before its first chunk),
\* "mkdirp" (awaiting main.js:181), "fetching" (awaiting main.js:209),
\* "walking" (awaiting a chunk, main.js:237 / 386), "returned", "rejected",
\* "done" (main past main.js:396), "exited" (process.exit(1), main.js:399).
\* jar, pom: "unset" | "skipped" | "inflight" | "ok" | "failed".
\* batch, kids: the chunk being awaited and its calls still recorded.
NewCall(k) ==
    [key |-> k, pc |-> "mkdirp", jar |-> "unset", pom |-> "unset",
     batch |-> 0, kids |-> {}]

MainCall == [NewCall("pom.xml") EXCEPT !.pc = "start"]

mainPc == calls[MainId].pc

\* The dependency list an activation iterates over (main.js:228, 366).
DepsOf(id, cs) == IF id = MainId THEN graph.root ELSE graph.deps[cs[id].key]

\* A walker that starts a call without consulting the visited set.
RECURSIVE DispatchUnchecked(_, _, _, _, _)
DispatchUnchecked(chunk, i, pid, base, st) ==
    IF i > Len(chunk) THEN st
    ELSE LET k  == chunk[i]
             id == Append(pid, base + i)
         IN DispatchUnchecked(chunk, i + 1, pid, base,
                   [visited |-> MarkVisited(st.visited, k),
                    calls   |-> st.calls @@ (id :> NewCall(k)),
                    kids    |-> st.kids \cup {id}])

\* A walker that lets a coordinate in again when one of its fetches failed.
RECURSIVE DispatchRetrying(_, _, _, _, _)
DispatchRetrying(chunk, i, pid, base, st) ==
    IF i > Len(chunk) THEN st
    ELSE LET k  == chunk[i]
             id == Append(pid, base + i)
             failedBefore ==
                 \E c \in DOMAIN st.calls :
                     st.calls[c].key = k /\ "failed" \in {st.calls[c].jar, st.calls[c].pom}
         IN IF k \in st.visited /\ ~failedBefore
            THEN DispatchRetrying(chunk, i + 1, pid, base, st)
            ELSE DispatchRetrying(chunk, i + 1, pid, base,
                   [visited |-> MarkVisited(st.visited, k),
                    calls   |-> st.calls @@ (id :> NewCall(k)),
                    kids    |-> st.kids \cup {id}])

\* chunk.map(dep => downloadDependency(dep, repositoryPath)), main.js:237 and
\* 386-393: the calls of one chunk start in list order, each running
\* synchronously up to its first await (mkdirp, main.js:181): the visited
\* check and the insert (main.js:160-166) of one call run before the next
\* call starts. st carries visited, calls and the ids of the calls that did
\* not return at once.
RECURSIVE Dispatch(_, _, _, _, _)
Dispatch(chunk, i, pid, base, st) ==
    IF i > Len(chunk) THEN st
    ELSE LET k  == chunk[i]
             id == Append(pid, base + i)
         IN IF k \in st.visited
            THEN Dispatch(chunk, i + 1, pid, base, st)
            ELSE Dispatch(chunk, i + 1, pid, base,
                   [visited |-> MarkVisited(st.visited, k),
                    calls   |-> st.calls @@ (id :> NewCall(k)),
                    kids    |-> st.kids \cup {id}])

(***************************************************************************)
(* Continuations. One event-loop callback runs every promise continuation  *)
(* it makes ready before the next callback starts, so an action is the     *)
(* callback followed by these. st is [visited, calls, disk].               *)
(***************************************************************************)

RECURSIVE Walk(_, _, _), Return(_, _)

\* main.js:236-238 and 385-394: the for-of loop over the chunks, from chunk
\* b on. A chunk whose calls all returned at once is awaited without
\* leaving the callback. After the last chunk the function returns.
Walk(st, id, b) ==
    LET L == DepsOf(id, st.calls)
    IN IF b > NumChunks(L) THEN Return(st, id)
       ELSE LET d  == Dispatch(Chunk(L, b), 1, id, (b - 1) * CONCURRENT_DOWNLOADS,
                               [visited |-> st.visited, calls |-> st.calls,
                                kids |-> {}])
                s2 == [st EXCEPT !.visited = d.visited,
                                 !.calls = [d.calls EXCEPT ![id].pc = "walking",
                                                           ![id].batch = b,
                                                           ![id].kids = d.kids]]
            IN IF d.kids = {} THEN Walk(s2, id, b + 1) ELSE s2

\* The activation returns normally: main reaches progressBar.stop()
\* (main.js:396); a downloadDependency promise resolves, and when it was the
\* last call its caller's Promise.all (main.js:237, 386) waited for, the
\* caller goes on with its next chunk.
Return(st, id) ==
    IF id = MainId
    THEN [st EXCEPT !.calls[id].pc = "done"]
    ELSE LET s1 == [st EXCEPT !.calls[id].pc = "returned"]
             p  == Parent(id)
         IN IF /\ s1.calls[p].pc = "walking"
               /\ id \in s1.calls[p].kids
               /\ \A kid \in s1.calls[p].kids : s1.calls[kid].pc = "returned"
            THEN Walk(s1, p, s1.calls[p].batch + 1)
            ELSE s1

\* The downloadDependency promise rejects (thrown outside the try block of
\* main.js:186). The caller's Promise.all rejects at once: in
\* downloadDependency the catch at main.js:240 logs and the caller returns
\* without its remaining chunks; in main the catch at main.js:397 calls
\* process.exit(1).
Reject(st, id) ==
    LET s1 == [st EXCEPT !.calls[id].pc = "rejected"]
        p  == Parent(id)
    IN IF s1.calls[p].pc = "walking" /\ id \in s1.calls[p].kids
       THEN IF p = MainId
            THEN [s1 EXCEPT !.calls[p].pc = "exited"]
            ELSE Return(s1, p)
       ELSE s1

\* main.js:212-239: after the downloads. The descriptor is checked
\* (missing: return; zero-length: unlinkSync and return), parsed (a parse
\* error is caught at main.js:240) and its dependencies are walked.
AfterDownloads(st, id) ==
    LET k    == st.calls[id].key
        pomF == LocalFile(k, "pom")
    IN CASE st.disk[pomF] = "absent" -> Return(st, id)
         [] st.disk[pomF] = "empty"  ->
              Return([st EXCEPT !.disk[pomF] = "absent"], id)
         [] st.disk[pomF] = "full"   ->
              IF k \in graph.bad THEN Return(st, id) ELSE Walk(st, id, 1)

\* A walker that downloads without looking at the disk.
FetchDecisionAlways(state) == "inflight"

\* main.js:190 and 199: the file is fetched when existsSync says it is not
\* there.
FetchDecision(state) == IF state = "absent" THEN "inflight" ELSE "skipped"

\* main.js:186-210: the two existsSync checks; the missing files' downloads
\* start (downloadFile is called, main.js:193 and 202) and are awaited
\* together. With nothing to download the call goes straight on.
StartDownloads(st, id) ==
    LET k  == st.calls[id].key
        j  == FetchDecision(st.disk[LocalFile(k, "jar")])
        p  == FetchDecision(st.disk[LocalFile(k, "pom")])
        s1 == [st EXCEPT !.calls[id].pc = "fetching",
                         !.calls[id].jar = j,
                         !.calls[id].pom = p]
    IN IF j = "skipped" /\ p = "skipped" THEN AfterDownloads(s1, id) ELSE s1

\* What a settled downloadFile call reports and leaves at dest
\* (main.js:249-345): "full" a 200 whose body was written; "empty" a 200
\* with a zero-length body; "failClean" a rejection with dest removed;
\* "failLeft" a rejection after which a zero-length dest remains.
FetchOutcomes == {"full", "empty", "failClean", "failLeft"}

FetchStatus(outcome) ==
    IF outcome \in {"full", "empty"} THEN "ok" ELSE "failed"

FetchLeaves(outcome) ==
    CASE outcome = "full"      -> "full"
      [] outcome = "empty"     -> "empty"
      [] outcome = "failClean" -> "absent"
      [] outcome = "failLeft"  -> "empty"

\* main.js:207-210, 243-245: a download of the call settled. Promise.all
\* rejects as soon as one download rejects (the catch at main.js:243 logs and
\* the call returns, whatever the other download is doing) and resolves when
\* every started download has resolved. A download that settles after its
\* call has returned changes nothing but the file.
DownloadSettled(st, id) ==
    LET c == st.calls[id]
    IN IF c.pc # "fetching" THEN st
       ELSE IF "failed" \in {c.jar, c.pom} THEN Return(st, id)
       ELSE IF "inflight" \in {c.jar, c.pom} THEN st
       ELSE AfterDownloads(st, id)

Alive == mainPc # "exited"

Now == [visited |-> visited, calls |-> calls, disk |-> disk]

Become(st) ==
    /\ visited' = st.visited
    /\ calls' = st.calls
    /\ disk' = st.disk

(***************************************************************************)
(* Init                                                                    *)
(***************************************************************************)

WalkIdle ==
    /\ graph = GraphCycle
    /\ cached = {}
    /\ stale = {}
    /\ disk = InitialDisk(cached)
    /\ visited = {}
    /\ calls = (MainId :> MainCall)

ResolveIdle ==
    /\ pom = [properties |-> << >>, version |-> << >>]
    /\ rpc = "idle"
    /\ parsed = << >>
    /\ handed = << >>
    /\ target = << >>
    /\ rootProperties = << >>
    /\ pomObj = [block |-> "null", entries |-> << >>]
    /\ dependencies = << >>

\* No downloadFile call under observation.
FetchIdle ==
    /\ net = "closed"
    /\ statuses = << >>
    /\ bodyLen = 0
    /\ delivered = 0
    /\ stream = [open |-> FALSE, ending |-> FALSE, finished |-> FALSE,
                 destroyed |-> FALSE, buffered |-> 0, written |-> 0,
                 onFinish |-> FALSE, closed |-> FALSE]
    /\ pool = [open |-> FALSE, unlinks |-> 0, close |-> FALSE]
    /\ dest = FALSE
    /\ promise = "pending"
    /\ crashed = FALSE
    /\ socket = "live"

Init ==
    /\ graph \in Graphs
    /\ cached \in SUBSET Keys
    /\ stale \in StaleChoices(cached)
    /\ disk = DiskAtStart(cached, stale)
    /\ visited = {}
    /\ calls = (MainId :> MainCall)
    /\ ResolveIdle
    /\ FetchIdle

(***************************************************************************)
(* Actions: one per event-loop callback                                    *)
(***************************************************************************)

\* main.js:348-394: main runs up to its first await of a chunk. rootOk =
\* FALSE: ./pom.xml cannot be read or parsed, parsePomXml throws and the
\* catch at main.js:397-400 calls process.exit(1).
MainStart(rootOk) ==
    /\ mainPc = "start"
    /\ IF rootOk
       THEN Become(Walk(Now, MainId, 1))
       ELSE Become([Now EXCEPT !.calls[MainId].pc = "exited"])
    /\ UNCHANGED <<graph, cached, stale, resolveVars, fetchVars>>

\* mkdirp of a directory that is there and readable succeeds; the directory
\* of a coordinate is known to be there when one of its files is.
MkdirpCanFail(k) == \A kind \in Kinds : disk[LocalFile(k, kind)] = "absent"

\* main.js:181: await mkdirp(localPath) settles.
MkdirpSettle(id, ok) ==
    /\ Alive
    /\ calls[id].pc = "mkdirp"
    /\ ok \/ MkdirpCanFail(calls[id].key)
    /\ IF ok
       THEN Become(StartDownloads(Now, id))
       ELSE Become(Reject(Now, id))
    /\ UNCHANGED <<graph, cached, stale, resolveVars, fetchVars>>

\* The promise of a downloadFile call settles (resolve at main.js:338,
\* reject at main.js:316, 324, 342).
FetchSettle(id, kind, outcome) ==
    /\ Alive
    /\ calls[id][kind] = "inflight"
    /\ Become(DownloadSettled(
           [Now EXCEPT !.calls[id][kind] = FetchStatus(outcome),
                       !.disk[LocalFile(calls[id].key, kind)] = FetchLeaves(outcome)],
           id))
    /\ UNCHANGED <<graph, cached, stale, resolveVars, fetchVars>>

Next ==
    \/ \E rootOk \in BOOLEAN : MainStart(rootOk)
    \/ \E id \in DOMAIN calls, ok \in BOOLEAN : MkdirpSettle(id, ok)
    \/ \E id \in DOMAIN calls, kind \in Kinds, outcome \in FetchOutcomes :
         FetchSettle(id, kind, outcome)

Spec == Init /\ [][Next]_vars

(***************************************************************************)
(* Version expressions (main.js:46-80, 407-426)                            *)
(*                                                                         *)
(* A string is a sequence of one-character strings. A JavaScript value is  *)
(* a record: Str(s), Obj(o) (an xml2js element object: key -> array of     *)
(* values), Null or Undefined.                                             *)
(***************************************************************************)

\* Longest property name, in characters.
MaxName == 3

\* Longest literal or range expression, in characters.
MaxLen == 5

Str(s) == [t |-> "str", s |-> s]

Obj(o) == [t |-> "obj", o |-> o]

Null == [t |-> "null"]

Undefined == [t |-> "undefined"]

\* JavaScript truthiness of a value: "" , null and undefined are falsy.
Truthy(v) == v.t = "obj" \/ (v.t = "str" /\ v.s # << >>)

\* String.prototype.startsWith / endsWith / includes.
startsWith(s, pre) == Len(s) >= Len(pre) /\ SubSeq(s, 1, Len(pre)) = pre

endsWith(s, suf) ==
    Len(s) >= Len(suf) /\ SubSeq(s, Len(s) - Len(suf) + 1, Len(s)) = suf

includes(s, ch) == \E i \in 1..Len(s) : s[i] = ch

\* String.prototype.slice(start, -back): from index start (0-based) up to
\* back characters before the end; empty when the two cross.
slice(s, start, back) == SubSeq(s, start + 1, Len(s) - back)

\* String.prototype.trim.
RECURSIVE trimStart(_)
trimStart(s) ==
    IF s # << >> /\ s[1] = " " THEN trimStart(Tail(s)) ELSE s

RECURSIVE trimEnd(_)
trimEnd(s) ==
    IF s # << >> /\ s[Len(s)] = " " THEN trimEnd(SubSeq(s, 1, Len(s) - 1)) ELSE s

trim(s) == trimEnd(trimStart(s))

\* String.prototype.split('.'): the segments between the dots, empty ones
\* included.
RECURSIVE splitFrom(_, _, _)
splitFrom(s, i, cur) ==
    IF i > Len(s) THEN <<cur>>
    ELSE IF s[i] = "." THEN <<cur>> \o splitFrom(s, i + 1, << >>)
    ELSE splitFrom(s, i + 1, Append(cur, s[i]))

split(s) == splitFrom(s, 1, << >>)

Digits == {"0", "1", "2", "3", "4", "5", "6", "7", "8", "9"}

DigitValue(ch) ==
    CASE ch = "0" -> 0 [] ch = "1" -> 1 [] ch = "2" -> 2 [] ch = "3" -> 3
      [] ch = "4" -> 4 [] ch = "5" -> 5 [] ch = "6" -> 6 [] ch = "7" -> 7
      [] ch = "8" -> 8 [] ch = "9" -> 9

RECURSIVE DecimalValue(_, _)
DecimalValue(s, acc) ==
    IF s = << >> THEN acc ELSE DecimalValue(Tail(s), 10 * acc + DigitValue(s[1]))

\* A property key that is an array index ("0", "7", "10"; not "", "01"):
\* its value, else -1.
ArrayIndex(key) ==
    IF /\ key # << >>
       /\ \A i \in 1..Len(key) : key[i] \in Digits
       /\ (key[1] # "0" \/ Len(key) = 1)
    THEN DecimalValue(key, 0)
    ELSE -1

\* main.js:63-64: current[part] && current[part][0], the value the lookup
\* goes on with, or Undefined when the test fails. On an element object,
\* current[part] is the array of the child elements named part. On a string,
\* current[part] is the character at index part, and its [0] is that
\* character again.
Descend(current, part) ==
    CASE current.t = "obj" ->
           IF part \in DOMAIN current.o /\ Truthy(current.o[part][1])
           THEN current.o[part][1]
           ELSE Undefined
      [] current.t = "str" ->
           IF ArrayIndex(part) >= 0 /\ ArrayIndex(part) < Len(current.s)
           THEN Str(<<current.s[ArrayIndex(part) + 1]>>)
           ELSE Undefined
      [] OTHER -> Undefined

\* main.js:60-69: the for-of loop over the segments.
RECURSIVE walkParts(_, _)
walkParts(current, parts) ==
    IF parts = << >> THEN current
    ELSE LET next == Descend(current, Head(parts))
         IN IF Truthy(next) THEN walkParts(next, Tail(parts)) ELSE Null

\* main.js:407-426
parseVersionRange(versionRange) ==
    LET v == trim(versionRange)
    IN IF startsWith(v, <<"[">>) /\ endsWith(v, <<")">>)
       THEN [min |-> Str(slice(v, 1, 2)), exact |-> Undefined]
       ELSE [min |-> Undefined, exact |-> Str(v)]

\* main.js:74: the test that sends an expression to parseVersionRange.
looksLikeRange(version) ==
    \/ includes(version, "[") /\ includes(version, "]")
    \/ includes(version, "(")
    \/ includes(version, ")")

\* main.js:46-80. version is a string, properties an element object.
resolveVersion(version, properties) ==
    IF version = << >> THEN Null
    ELSE IF startsWith(version, <<"$", "{">>) /\ endsWith(version, <<"}">>)
    THEN LET propertyName == slice(version, 2, 1)
         IN IF propertyName \in DOMAIN properties
            THEN properties[propertyName][1]
            ELSE walkParts(Obj(properties), split(propertyName))
    ELSE IF looksLikeRange(version)
    THEN LET versionRange == parseVersionRange(version)
         IN IF Truthy(versionRange.min) THEN versionRange.min ELSE Str(version)
    ELSE Str(version)

\* main.js:105: version: dep.version ? [resolveVersion(dep.version[0],
\* properties)] : []. A descriptor entry without <version> has raw = Undefined.
parsePomVersion(raw, properties) ==
    IF raw.t = "undefined" THEN << >>
    ELSE <<resolveVersion(raw.s, properties)>>

\* main.js:125-139 for one entry that has its groupId and artifactId: the
\* entry is pushed when dep.version && dep.version[0], else skipped.
getDependencies(versionArray) ==
    IF versionArray # << >> /\ Truthy(versionArray[1])
    THEN <<versionArray[1]>>
    ELSE << >>

\* A filter that does not ask for the group.
keepsEntryNoGroup(dep) ==
    /\ dep.artifactId.t # "undefined"
    /\ dep.version # << >>
    /\ Truthy(dep.version[1])

\* main.js:126: dep.groupId && dep.artifactId && dep.version &&
\* dep.version[0]. A field that is there is an array, which is truthy
\* whatever it holds; dep.version is the array parsePomXml stored.
keepsEntry(dep) ==
    /\ dep.groupId.t # "undefined"
    /\ dep.artifactId.t # "undefined"
    /\ dep.version # << >>
    /\ Truthy(dep.version[1])

\* main.js:127-131: the object pushed for an entry.
pushEntry(dep) ==
    [groupId |-> dep.groupId, artifactId |-> dep.artifactId, version |-> dep.version[1]]

\* main.js:115-146 on a whole manifest. block: "null" (parsePomXml resolved
\* null), "none" (no <dependencies>), "empty" (<dependencies/>, which xml2js
\* gives as [''] so that .dependency is undefined), "entries".
getDependenciesOf(obj) ==
    IF obj.block # "entries" THEN << >>
    ELSE LET kept == SelectSeq(obj.entries, keepsEntry)
         IN [i \in 1..Len(kept) |-> pushEntry(kept[i])]

(***************************************************************************)
(* Inputs of the resolver                                                  *)
(***************************************************************************)

\* Most entries in a dependency block.
MaxEntries == 2

NullManifest == [block |-> "null", entries |-> << >>]

\* Entries as they are after parsePomXml (main.js:103-106): groupId and
\* artifactId there or not (an empty <groupId/> is there), version []
\* (no <version>), [null], a literal or the empty text.
EntryShapes ==
    [groupId : {Undefined, Str(<<"g">>), Str(<< >>)},
     artifactId : {Undefined, Str(<<"x">>), Str(<<"y">>)},
     version : {<< >>, <<Null>>, <<Str(<<"1">>)>>, <<Str(<< >>)>>}]

Manifests ==
    {NullManifest, [block |-> "none", entries |-> << >>],
     [block |-> "empty", entries |-> << >>]}
    \cup {[block |-> "entries", entries |-> e] :
            e \in UNION {[1..n -> EntryShapes] : n \in 1..MaxEntries}}

\* Property tables of the root manifest: none, or <a>0</a>.
RootTables == {<< >>, (<<"a">> :> <<Str(<<"0">>)>>)}

\* A manifest entry with a literal version and no properties.
PlainPom == [properties |-> << >>, version |-> Str(<<"1">>)]

RECURSIVE StringsOver(_, _)
StringsOver(alphabet, n) ==
    IF n = 0 THEN {<< >>}
    ELSE LET shorter == StringsOver(alphabet, n - 1)
         IN shorter \cup {Append(s, ch) : s \in {x \in shorter : Len(x) = n - 1},
                                          ch \in alphabet}

PropertyNames == StringsOver({"a", "0", "."}, MaxName)

PropertyRefs == {<<"$", "{">> \o n \o <<"}">> : n \in PropertyNames}

\* Literals and ranges, well formed or not.
RangeLike == StringsOver({"[", "]", "(", ")", ",", "1"}, MaxLen)

\* Ranges with blanks around them, as <version> [1,) </version> gives.
Padded == {<<" ", "[", "1", ",", ")">>, <<"[", "1", ",", ")", " ">>}

kA == <<"a">>

kAA == <<"a", ".", "a">>

\* Property tables as xml2js builds them from <properties>.
PropertyTables ==
    { << >>,                                            \* no properties
      (kAA :> <<Str(<<"1">>)>>),                        \* <a.a>1</a.a>
      (kA :> <<Obj(kA :> <<Str(<<"1">>)>>)>>),          \* <a><a>1</a></a>
      (kA :> <<Str(<<"1", "0">>)>>),                    \* <a>10</a>
      (kA :> <<Str(<< >>)>>),                           \* <a></a>
      (kA :> <<Obj(kA :> <<Str(<< >>)>>)>>),            \* <a><a></a></a>
      (kAA :> <<Str(<<"1">>)>>) @@ (kA :> <<Obj(kA :> <<Str(<<"0">>)>>)>>),
      (kA :> <<Str(<<"[", "1", ",", ")">>)>>),          \* <a>[1,)</a>
      (kA :> <<Str(<<"$", "{", "a", "}">>)>>) }         \* <a>${a}</a>

Poms ==
    [properties : PropertyTables, version : {Str(v) : v \in PropertyRefs}]
    \cup [properties : {<< >>}, version : {Str(v) : v \in RangeLike \cup Padded} \cup {Undefined}]

ResolveInit ==
    /\ WalkIdle
    /\ FetchIdle
    /\ pom \in Poms
    /\ rootProperties \in RootTables
    /\ pomObj \in (IF pom = PlainPom /\ rootProperties = << >>
                   THEN Manifests ELSE {NullManifest})
    /\ rpc = "input"
    /\ parsed = << >>
    /\ handed = << >>
    /\ target = << >>
    /\ dependencies = << >>

\* A parser that resolves against the root manifest's table as well.
ParsePomXmlMerged ==
    /\ rpc = "input"
    /\ rpc' = "parsed"
    /\ parsed' = parsePomVersion(pom.version, pom.properties @@ rootProperties)
    /\ UNCHANGED <<walkVars, fetchVars, pom, handed, target, rootProperties, pomObj,
                   dependencies>>

\* main.js:83-112: parsePomXml resolves the entry's version against the
\* document's own property table.
ParsePomXml ==
    /\ rpc = "input"
    /\ rpc' = "parsed"
    /\ parsed' = parsePomVersion(pom.version, pom.properties)
    /\ UNCHANGED <<walkVars, fetchVars, pom, handed, target, rootProperties, pomObj,
                   dependencies>>

\* main.js:115-146: getDependencies keeps or skips the entry.
GetDependencies ==
    /\ rpc = "parsed"
    /\ rpc' = "listed"
    /\ handed' = getDependencies(parsed)
    /\ dependencies' = getDependenciesOf(pomObj)
    /\ UNCHANGED <<walkVars, fetchVars, pom, parsed, target, rootProperties, pomObj>>

\* A value inside a template literal or a string concatenation
\* (main.js:159, 176-178): String(value).
ToText(v) ==
    CASE v.t = "str"       -> v.s
      [] v.t = "undefined" -> <<"u", "n", "d", "e", "f", "i", "n", "e", "d">>
      [] v.t = "null"      -> <<"n", "u", "l", "l">>
      [] v.t = "obj"       -> <<"[", "o", "b", "j", "e", "c", "t", " ",
                                "O", "b", "j", "e", "c", "t", "]">>

\* main.js:159: `${groupId}:${artifactId}:${version}`. The group and the
\* artifact are the same for every entry considered here, so the key is
\* told by its version part.
dependencyKey(version) == ToText(version)

\* main.js:169-174: the version the paths are built from. version is a
\* string value.
actualVersion(version) ==
    IF includes(version.s, "[") \/ includes(version.s, "(")
    THEN parseVersionRange(version.s).min
    ELSE version

\* main.js:176-184: the version part of artifactPath, jarName and pomName,
\* hence of both local paths and both URLs.
artifactPath(actual) == ToText(actual)

\* main.js:149-181: downloadDependency from its entry to its first await,
\* for a version that getDependencies handed over. threw: version.includes
\* (main.js:170) is not a function when the version is an element object.
downloadTarget(version) ==
    IF version.t # "str"
    THEN [key |-> dependencyKey(version), threw |-> TRUE,
          actual |-> Undefined, path |-> << >>]
    ELSE [key |-> dependencyKey(version), threw |-> FALSE,
          actual |-> actualVersion(version),
          path |-> artifactPath(actualVersion(version))]

\* main.js:149-184, entered from main.js:237 / 389 with an entry of the
\* list getDependencies returned.
DownloadDependency ==
    /\ rpc = "listed"
    /\ handed # << >>
    /\ rpc' = "located"
    /\ target' = downloadTarget(handed[1])
    /\ UNCHANGED <<walkVars, fetchVars, pom, parsed, handed, rootProperties, pomObj,
                   dependencies>>

ResolveNext == ParsePomXml \/ GetDependencies \/ DownloadDependency

ResolveSpec == ResolveInit /\ [][ResolveNext]_vars

(***************************************************************************)
(* downloadFile (main.js:249-345): one call, for a destination that does   *)
(* not exist when the call is made (main.js:190, 199).                     *)
(*                                                                         *)
(* The write stream: createWriteStream issues the open (flags 'w': create  *)
(* and truncate) on the thread pool; close() is end(); once ended, opened  *)
(* and drained the stream emits 'finish' and, autoClose being on, closes   *)
(* its descriptor and is destroyed. fs.unlink runs on the thread pool too, *)
(* and nothing orders it against the open.                                 *)
(***************************************************************************)

\* Chunks in the longest response body.
BodyChunks == 2

\* Status codes a response can carry: success, redirect, not found, other.
StatusCodes == {200, 301, 302, 404, 500}

\* main.js:251, 269: the state when downloadFile returns its promise: the
\* open is queued, the first GET is on its way.
FetchInit ==
    /\ WalkIdle
    /\ ResolveIdle
    /\ net = "response"
    /\ statuses = << >>
    /\ bodyLen = 0
    /\ delivered = 0
    /\ stream = [open |-> FALSE, ending |-> FALSE, finished |-> FALSE,
                 destroyed |-> FALSE, buffered |-> 0, written |-> 0,
                 onFinish |-> FALSE, closed |-> FALSE]
    /\ pool = [open |-> TRUE, unlinks |-> 0, close |-> FALSE]
    /\ dest = FALSE
    /\ promise = "pending"
    /\ crashed = FALSE
    /\ socket = "live"

Running == ~crashed

\* reject(...) / resolve(): a promise settles once; later calls are ignored.
Settle(p, outcome) == IF p = "pending" THEN outcome ELSE p

\* file.close() (main.js:273, 279, 287, 314, 322): WriteStream.close calls
\* end().
CloseStream(st) == [st EXCEPT !.ending = TRUE]

\* A fetcher that reports every bad status alike and leaves the file.
RejectStatusPlain(code) ==
    /\ stream' = CloseStream(stream)
    /\ promise' = Settle(promise, "httpStatus")
    /\ net' = "closed"
    /\ UNCHANGED <<bodyLen, delivered, pool>>

\* main.js:277-291 and 312-326: a response that is not a 200 (after the
\* redirect test): file.close(), fs.unlink(dest), reject.
RejectStatus(code) ==
    /\ stream' = CloseStream(stream)
    /\ pool' = [pool EXCEPT !.unlinks = @ + 1]
    /\ promise' = Settle(promise, IF code = 404 THEN "notFound" ELSE "httpStatus")
    /\ net' = "closed"
    /\ UNCHANGED <<bodyLen, delivered>>

\* main.js:293-304 and 328-339: a 200: response.pipe(file) and
\* file.on('finish', ...). A listener added after 'finish' was emitted is
\* never called.
PipeBody(len) ==
    /\ net' = "body"
    /\ bodyLen' = len
    /\ delivered' = 0
    /\ stream' = [stream EXCEPT !.onFinish = ~stream.finished]
    /\ UNCHANGED <<pool, promise>>

\* main.js:269-339: the callback of the first https.get.
FirstResponse(code, len) ==
    /\ Running
    /\ socket = "live"
    /\ net = "response"
    /\ statuses = << >>
    /\ statuses' = <<code>>
    /\ CASE code \in {301, 302} ->
              \* main.js:270-276: file.close(), fs.unlink(dest), second GET
              /\ stream' = CloseStream(stream)
              /\ pool' = [pool EXCEPT !.unlinks = @ + 1]
              /\ UNCHANGED <<net, bodyLen, delivered, promise>>
         [] code = 200 -> PipeBody(len)
         [] OTHER -> RejectStatus(code)
    /\ UNCHANGED <<walkVars, resolveVars, socket, dest, crashed>>

\* A fetcher that follows a second redirect with another request.
SecondResponseFollows(code, len) ==
    /\ Running
    /\ socket = "live"
    /\ net = "response"
    /\ Len(statuses) = 1
    /\ statuses' = Append(statuses, code)
    /\ CASE code \in {301, 302} ->
              /\ stream' = CloseStream(stream)
              /\ pool' = [pool EXCEPT !.unlinks = @ + 1]
              /\ UNCHANGED <<net, bodyLen, delivered, promise>>
         [] code = 200 -> PipeBody(len)
         [] OTHER -> RejectStatus(code)
    /\ UNCHANGED <<walkVars, resolveVars, socket, dest, crashed>>

\* main.js:276-304: the callback of the second https.get. A redirect status
\* is not 200 and is rejected like any other.
SecondResponse(code, len) ==
    /\ Running
    /\ socket = "live"
    /\ net = "response"
    /\ Len(statuses) = 1
    /\ statuses' = Append(statuses, code)
    /\ IF code = 200 THEN PipeBody(len) ELSE RejectStatus(code)
    /\ UNCHANGED <<walkVars, resolveVars, socket, dest, crashed>>

\* main.js:305-308 and 340-343: the request's 'error' event, before any
\* response to it: fs.unlink(dest), reject(err). The stream is not closed.
RequestError ==
    /\ Running
    /\ socket = "live"
    /\ net = "response"
    /\ net' = "closed"
    /\ pool' = [pool EXCEPT !.unlinks = @ + 1]
    /\ promise' = Settle(promise, "error")
    /\ UNCHANGED <<walkVars, resolveVars, socket, statuses, bodyLen, delivered, stream,
                   dest, crashed>>

\* The pipe hands a chunk to file.write (main.js:300, 335). A destroyed
\* stream drops it; an ended one raises write-after-end as an 'error' event
\* that has no listener; otherwise it is written, at once when the file is
\* open, after the open when not.
DataChunk ==
    /\ Running
    /\ socket = "live"
    /\ net = "body"
    /\ delivered < bodyLen
    /\ delivered' = delivered + 1
    /\ IF stream.destroyed
       THEN UNCHANGED <<stream, crashed>>
       ELSE IF stream.ending
       THEN crashed' = TRUE /\ UNCHANGED stream
       ELSE /\ stream' = IF stream.open
                         THEN [stream EXCEPT !.written = @ + 1]
                         ELSE [stream EXCEPT !.buffered = @ + 1]
            /\ UNCHANGED crashed
    /\ UNCHANGED <<walkVars, resolveVars, socket, net, statuses, bodyLen, pool, dest, promise>>

\* The response's 'end': the pipe calls file.end().
BodyEnd ==
    /\ Running
    /\ socket = "live"
    /\ net = "body"
    /\ delivered = bodyLen
    /\ net' = "closed"
    /\ stream' = CloseStream(stream)
    /\ UNCHANGED <<walkVars, resolveVars, socket, statuses, bodyLen, delivered, pool, dest,
                   promise, crashed>>

\* The thread pool runs the open of createWriteStream (main.js:251): the
\* file is created at dest, empty, and what was buffered is written.
OpenDone ==
    /\ Running
    /\ pool.open
    /\ pool' = [pool EXCEPT !.open = FALSE]
    /\ dest' = TRUE
    /\ stream' = [stream EXCEPT !.open = TRUE,
                                !.written = stream.buffered,
                                !.buffered = 0]
    /\ UNCHANGED <<walkVars, resolveVars, socket, net, statuses, bodyLen, delivered, promise,
                   crashed>>

\* The thread pool runs one fs.unlink(dest, () => {}); its error, if the
\* file is not there, is ignored.
UnlinkDone ==
    /\ Running
    /\ pool.unlinks > 0
    /\ pool' = [pool EXCEPT !.unlinks = @ - 1]
    /\ dest' = FALSE
    /\ UNCHANGED <<walkVars, resolveVars, socket, net, statuses, bodyLen, delivered, stream,
                   promise, crashed>>

\* The stream, ended, open and drained, emits 'finish': the listener of
\* main.js:301-304 / 336-339, if registered in time, calls file.close() and
\* resolve(); the stream is then destroyed, which queues the close of its
\* descriptor on the thread pool.
Finish ==
    /\ Running
    /\ stream.ending /\ stream.open /\ ~stream.finished
    /\ stream' = [stream EXCEPT !.finished = TRUE, !.destroyed = TRUE]
    /\ pool' = [pool EXCEPT !.close = TRUE]
    /\ promise' = IF stream.onFinish THEN Settle(promise, "resolved") ELSE promise
    /\ UNCHANGED <<walkVars, resolveVars, socket, net, statuses, bodyLen, delivered,
                   dest, crashed>>

\* The thread pool runs the close of the descriptor; the stream emits
\* 'close'.
CloseDone ==
    /\ Running
    /\ pool.close
    /\ pool' = [pool EXCEPT !.close = FALSE]
    /\ stream' = [stream EXCEPT !.closed = TRUE]
    /\ UNCHANGED <<walkVars, resolveVars, socket, net, statuses, bodyLen, delivered,
                   dest, promise, crashed>>

\* The connection stalls: the peer sends nothing more, neither the response
\* nor the rest of the body, and does not close.
Stall ==
    /\ Running
    /\ net \in {"response", "body"}
    /\ socket = "live"
    /\ socket' = "stalled"
    /\ UNCHANGED <<walkVars, resolveVars, net, statuses, bodyLen, delivered, stream,
                   pool, dest, promise, crashed>>

\* main.js:257: the timeout option arms the socket's idle timer; when it
\* expires the request emits 'timeout'. downloadFile registers no listener
\* for it (main.js:269-343 has 'error' only) and the request is not
\* destroyed, so nothing else happens.
Timeout ==
    /\ Running
    /\ socket = "stalled"
    /\ socket' = "timedOut"
    /\ UNCHANGED <<walkVars, resolveVars, net, statuses, bodyLen, delivered, stream,
                   pool, dest, promise, crashed>>

FetchNext ==
    \/ \E code \in StatusCodes, len \in 0..BodyChunks : FirstResponse(code, len)
    \/ \E code \in StatusCodes, len \in 0..BodyChunks : SecondResponse(code, len)
    \/ RequestError
    \/ DataChunk
    \/ BodyEnd
    \/ OpenDone
    \/ UnlinkDone
    \/ Finish
    \/ CloseDone
    \/ Stall
    \/ Timeout

FetchSpec == FetchInit /\ [][FetchNext]_vars

(***************************************************************************)
(* Observations on the walker                                              *)
(***************************************************************************)

Range(f) == {f[i] : i \in DOMAIN f}

DepCalls == DOMAIN calls \ {MainId}

\* downloadDependency bodies run past the visited check for key k.
Bodies(k) == Cardinality({id \in DepCalls : calls[id].key = k})

\* downloadFile calls made for a file of key k.
Started(k, kind) ==
    Cardinality({id \in DepCalls :
        calls[id].key = k /\ calls[id][kind] \in {"inflight", "ok", "failed"}})

\* downloadFile calls that have started and not settled.
InFlight ==
    Cardinality({x \in DepCalls \X Kinds : calls[x[1]][x[2]] = "inflight"})

\* The coordinates reachable from the root list through parsable descriptors.
RECURSIVE ReachFrom(_, _)
ReachFrom(S, g) ==
    LET T == S \cup UNION {Range(g.deps[k]) : k \in S \ g.bad}
    IN IF T = S THEN S ELSE ReachFrom(T, g)

Reach(g) == ReachFrom(Range(g.root), g)

\* The chunk of its caller's list that call id belongs to.
ChunkOf(id) == ((id[Len(id)] - 1) \div CONCURRENT_DOWNLOADS) + 1

(***************************************************************************)
(* C1: for every coordinate key, downloadDependency gets past the visited  *)
(* check at most once in a run, so at most one binary fetch and at most    *)
(* one descriptor fetch are started for the key, whatever the paths that   *)
(* reach it and however the callbacks interleave.                          *)
(***************************************************************************)
C1_AtMostOnePerKey ==
    \A k \in Keys :
        /\ Bodies(k) <= 1
        /\ Started(k, "jar") <= 1
        /\ Started(k, "pom") <= 1

\* The diamond happened: both parents of D walked their dependency on D
\* and D's files were fetched.
C1_DiamondWalked ==
    /\ graph = GraphWide
    /\ \E a, b \in DepCalls :
         /\ calls[a].key = "A" /\ calls[a].pc = "returned" /\ calls[a].batch = NumChunks(graph.deps["A"])
         /\ calls[b].key = "B" /\ calls[b].pc = "returned" /\ calls[b].batch = NumChunks(graph.deps["B"])
    /\ Started("D", "jar") = 1
    /\ Started("D", "pom") = 1

(***************************************************************************)
(* C3: with ceiling N = CONCURRENT_DOWNLOADS, while a list of more than N  *)
(* sibling dependencies is being walked, at most N downloadFile calls are  *)
(* in flight, counting both files of each coordinate and nested walks.     *)
(***************************************************************************)
C3_AtMostNInFlight ==
    (\E id \in DOMAIN calls :
        /\ calls[id].pc = "walking"
        /\ Len(DepsOf(id, calls)) > CONCURRENT_DOWNLOADS)
    => InFlight <= CONCURRENT_DOWNLOADS

(***************************************************************************)
(* C4: when a call of a later chunk of some caller has started, every call *)
(* of that caller's earlier chunks has returned and none of the fetches    *)
(* those calls started is still in flight.                                 *)
(***************************************************************************)
C4_BatchCompleteBeforeNext ==
    \A early, late \in DepCalls :
        (Parent(early) = Parent(late) /\ ChunkOf(early) < ChunkOf(late))
        => /\ calls[early].pc = "returned"
           /\ calls[early].jar # "inflight"
           /\ calls[early].pom # "inflight"

(***************************************************************************)
(* C5: a run started on a repository directory that already holds both     *)
(* files, non-empty, of every reachable coordinate calls downloadFile      *)
(* never, and still walks the whole graph from the descriptors on disk.    *)
(***************************************************************************)
AllCached == Reach(graph) \subseteq cached

C5_IdempotentRerun ==
    AllCached =>
        /\ \A id \in DepCalls, kind \in Kinds : calls[id][kind] \in {"unset", "skipped"}
        /\ mainPc = "done" => visited = Reach(graph)

\* A rerun over a cached diamond-and-cycle graph ran to the end.
C5_RerunFinished ==
    /\ graph = GraphWide
    /\ AllCached
    /\ mainPc = "done"
    /\ visited = {"A", "B", "C", "D"}

(***************************************************************************)
(* C10: a failure at one coordinate (fetch failure, directory-creation     *)
(* error, empty or unparsable descriptor) never propagates: the failing    *)
(* call returns normally, its caller goes on with every chunk, and main    *)
(* walks every root coordinate.                                            *)
(***************************************************************************)
C10_FaultIsolation ==
    /\ \A id \in DepCalls : calls[id].pc # "rejected"
    /\ mainPc = "exited" => DepCalls = {}
    /\ mainPc = "done" => Range(graph.root) \subseteq visited
    /\ \A id \in DepCalls :
         (calls[id].pc = "returned" /\ calls[id].batch > 0)
         => Range(graph.deps[calls[id].key]) \subseteq visited

(***************************************************************************)
(* C2: the walk over a finite graph, cyclic or not, terminates when every  *)
(* awaited operation settles. Every step settles one awaited operation     *)
(* (Settled grows and is bounded), and as long as main has not finished    *)
(* some operation is awaited, so a run cannot go on forever nor stop       *)
(* early. The bodies run past the visited check never outnumber the        *)
(* distinct keys, and in a run where nothing fails every reachable         *)
(* coordinate, those of a cycle included, is walked exactly once and each  *)
(* of its missing files is fetched exactly once.                           *)
(***************************************************************************)
MainFinished == mainPc \in {"done", "exited"}

\* Awaited operations that have settled: main's start, the mkdirp of each
\* call, each download.
Settled ==
    (IF mainPc = "start" THEN 0 ELSE 1)
    + Cardinality({id \in DepCalls : calls[id].pc # "mkdirp"})
    + Cardinality({x \in DepCalls \X Kinds : calls[x[1]][x[2]] \in {"ok", "failed"}})

\* An operation is awaited whose settling is an action of the walker: main's
\* start, a mkdirp (MkdirpSettle with ok = TRUE has no other guard), a
\* download (FetchSettle).
SomethingAwaited ==
    \/ mainPc = "start"
    \/ \E id \in DepCalls :
         calls[id].pc = "mkdirp" \/ "inflight" \in {calls[id].jar, calls[id].pom}

NothingFailed ==
    \A id \in DepCalls :
        /\ calls[id].pc = "returned"
        /\ calls[id].jar \in {"skipped", "ok"}
        /\ calls[id].pom \in {"skipped", "ok"}
        /\ disk[LocalFile(calls[id].key, "pom")] = "full"
        /\ calls[id].key \notin graph.bad

WalkedExactlyOnce ==
    \A k \in Reach(graph) :
        /\ Bodies(k) = 1
        /\ \A kind \in Kinds :
             Started(k, kind) =
                 IF DiskAtStart(cached, stale)[LocalFile(k, kind)] = "absent" THEN 1 ELSE 0

C2_WalkTerminates ==
    /\ [][Settled' > Settled]_vars
    /\ [](Settled <= 1 + 3 * Cardinality(Keys))
    /\ [](MainFinished \/ SomethingAwaited)
    /\ [](Cardinality(DepCalls) <= Cardinality(Keys))
    /\ []((mainPc = "done" /\ NothingFailed) => WalkedExactlyOnce)

\* The synthetic cycle A -> B -> A converged on an empty repository
\* directory, A and B fetched once each.
C2_CycleConverged ==
    /\ graph = GraphCycle
    /\ cached = {}
    /\ mainPc = "done"
    /\ \A k \in {"A", "B"}, kind \in Kinds :
         Started(k, kind) = 1 /\ disk[LocalFile(k, kind)] = "full"

(***************************************************************************)
(* C8: for every property table P and expression ${name}, resolveVersion   *)
(* returns the value stored under the full name when P has such an entry;  *)
(* otherwise it walks the dot-separated segments of name into P and        *)
(* returns the value reached; when a segment is missing it returns null,   *)
(* and getDependencies drops the dependency.                               *)
(***************************************************************************)
IsPropertyRef(v) ==
    v.t = "str" /\ startsWith(v.s, <<"$", "{">>) /\ endsWith(v.s, <<"}">>)

\* The nested lookup the claim describes: each segment names a child
\* element of the element reached so far (an empty element counts as
\* missing).
RECURSIVE ClaimedWalk(_, _)
ClaimedWalk(current, parts) ==
    IF parts = << >> THEN current
    ELSE IF /\ current.t = "obj"
            /\ Head(parts) \in DOMAIN current.o
            /\ Truthy(current.o[Head(parts)][1])
    THEN ClaimedWalk(current.o[Head(parts)][1], Tail(parts))
    ELSE Null

ClaimedLookup(name, P) ==
    IF name \in DOMAIN P THEN P[name][1] ELSE ClaimedWalk(Obj(P), split(name))

C8_PropertyResolution ==
    IsPropertyRef(pom.version) =>
        /\ rpc # "input" =>
             parsed = <<ClaimedLookup(slice(pom.version.s, 2, 1), pom.properties)>>
        /\ (rpc = "listed" /\ parsed = <<Null>>) => handed = << >>

(***************************************************************************)
(* C9: resolveVersion always selects the declared minimum bound of a       *)
(* range: an expression "[" min "," max ")" resolves to exactly min,       *)
(* whether max is empty or not; every other bracket/parenthesis            *)
(* combination is returned equal to the original string.                   *)
(***************************************************************************)
RangeDelimiters == {"[", "]", "(", ")", ","}

PlainText(s) == \A i \in 1..Len(s) : s[i] \notin RangeDelimiters \cup {" "}

FirstComma(s) == CHOOSE i \in 1..Len(s) : s[i] = "," /\ \A j \in 1..(i - 1) : s[j] # ","

\* "[" min "," max ")" with a non-empty min.
IsMinRange(v) ==
    /\ startsWith(v, <<"[">>) /\ endsWith(v, <<")">>)
    /\ includes(v, ",")
    /\ FirstComma(v) > 2
    /\ PlainText(SubSeq(v, 2, FirstComma(v) - 1))
    /\ PlainText(SubSeq(v, FirstComma(v) + 1, Len(v) - 1))

LowerBound(v) == SubSeq(v, 2, FirstComma(v) - 1)

C9_RangeResolution ==
    (pom.version.t = "str" /\ ~IsPropertyRef(pom.version) /\ rpc # "input") =>
        LET v == trim(pom.version.s)
        IN IF IsMinRange(v)
           THEN parsed = <<Str(LowerBound(v))>>
           ELSE (/\ \E i \in 1..Len(v) : v[i] \in RangeDelimiters \ {","}
                 /\ ~(startsWith(v, <<"[">>) /\ endsWith(v, <<")">>)))
                => parsed = <<Str(pom.version.s)>>


(***************************************************************************)
(* downloadFile: failure cleanup and redirects.                            *)
(***************************************************************************)

\* The call has reported a 404 or a transport error.
FetchFailed == promise \in {"notFound", "error"}

\* Every thread-pool operation the call issued has run, and the stream, if
\* it was closed, has closed.
PoolIdle ==
    /\ ~pool.open
    /\ pool.unlinks = 0
    /\ ~pool.close
    /\ stream.ending => stream.closed

\* C6: failure cleanup. Once downloadFile has reported a 404 or a transport
\* error and the open, close and unlink it issued have all run, no file
\* exists at the destination path, whatever the order in which they ran.
C6_FailureCleanup == (FetchFailed /\ PoolIdle) => ~dest

\* The first response was a redirect and the follow-up answered 200.
RedirectedTo200 ==
    /\ Len(statuses) = 2
    /\ statuses[1] \in {301, 302}
    /\ statuses[2] = 200

\* The destination holds the complete body of the 200 response.
BodyOnDisk == dest /\ stream.written = bodyLen

\* C7: redirect handling. A call redirected to a URL that answers 200 does
\* not come to rest without having reported success, and when it has
\* reported success the destination holds the complete body of the second
\* response.
C7_RedirectSucceeds ==
    RedirectedTo200 =>
        /\ (~ENABLED FetchNext) => promise = "resolved"
        /\ promise = "resolved" => BodyOnDisk


(***************************************************************************)
(* downloadFile: settling.                                                 *)
(***************************************************************************)

FetchSettled == promise # "pending"

\* C11: every downloadFile call settles. Once the timeout of a stalled
\* connection has fired the call has reported a failure, and a call with
\* nothing left to happen has reported success or failure.
C11_EveryFetchSettles ==
    /\ socket = "timedOut" => FetchSettled
    /\ (~ENABLED FetchNext) => FetchSettled


\* The call reported success for a 200 and every chunk of its body is in the
\* file.
CompleteBody ==
    /\ promise = "resolved"
    /\ statuses # << >>
    /\ statuses[Len(statuses)] = 200
    /\ stream.written = bodyLen

\* C12: no partial files. When the call has settled and no open, close or
\* unlink it issued is still to run, a file exists at the destination only
\* if it holds the complete body of a 200 response.
C12_NoPartialFile == (FetchSettled /\ PoolIdle /\ dest) => CompleteBody


(***************************************************************************)
(* The walker: exit status, visited set, paths.                            *)
(***************************************************************************)

\* process.exit(1) was called (main.js:399).
ExitedNonZero == mainPc = "exited"

\* main got past parsePomXml and getDependencies of ./pom.xml
\* (main.js:365-366) and started walking the root dependencies.
RootManifestRead == mainPc # "start" /\ (DepCalls # {} \/ mainPc \in {"walking", "done"})

\* C13: exit behaviour. The process exits with a non-zero status only when
\* the root manifest could not be read or parsed: once the root manifest
\* has been read, no error makes the process exit non-zero.
C13_ExitOnlyOnRootManifest == ExitedNonZero => ~RootManifestRead


\* C14: the visited set is append-only and insertion precedes I/O. No step
\* removes a key; every downloadDependency call that is past the visited
\* check, including one still waiting for its directory to be created, has
\* its key in the set, and so has every coordinate for which a fetch has
\* been started.
C14_VisitedBeforeIO ==
    /\ [][visited \subseteq visited']_vars
    /\ [](\A id \in DepCalls : calls[id].key \in visited)
    /\ [](\A k \in Keys, kind \in Kinds : Started(k, kind) > 0 => k \in visited)

\* A fetch is in flight for one coordinate while another call is still
\* creating its directory, two keys or more being in the set.
C14_FetchingAndCreating ==
    /\ \E id \in DepCalls : calls[id].jar = "inflight" /\ calls[id].key \in visited
    /\ \E id \in DepCalls : calls[id].pc = "mkdirp" /\ calls[id].key \in visited
    /\ Cardinality(visited) >= 2


(***************************************************************************)
(* Keys, versions and paths.                                               *)
(***************************************************************************)

\* Literal versions of a second coordinate with the same group and artifact.
Literals == {v \in StringsOver({"1", "0"}, 2) : v # << >>}

\* downloadDependency got as far as building the paths of the entry.
Located == rpc = "located" /\ ~target.threw

\* C15: distinct keys have distinct paths. The paths built for the entry
\* differ from the paths built for any coordinate of the same group and
\* artifact whose identity key is different.
C15_DistinctPaths ==
    Located =>
        \A w \in Literals :
            target.key # dependencyKey(Str(w)) =>
                target.path # artifactPath(actualVersion(Str(w)))


\* C16: an unresolved version is never fetched. Whenever downloadDependency
\* builds the URLs and local paths it hands to downloadFile, the version it
\* builds them from is a defined, non-empty string.
C16_OnlyConcreteVersions ==
    Located => (target.actual.t = "str" /\ target.actual.s # << >>)


\* A literal: text with no range delimiter that is not a ${...} reference.
IsLiteral(v) ==
    /\ v.t = "str"
    /\ ~IsPropertyRef(v)
    /\ \A i \in 1..Len(v.s) : v.s[i] \notin {"[", "]", "(", ")"}

\* C17: parsePomXml hands over resolved versions only. After parsePomXml
\* the entry's version is absent, null or a literal.
C17_VersionsFullyResolved ==
    (rpc # "input" /\ rpc # "idle") =>
        (parsed = << >> \/ parsed[1].t = "null" \/ IsLiteral(parsed[1]))


(***************************************************************************)
(* The walker: the two files of a coordinate.                              *)
(***************************************************************************)

\* Both files of the call are settled: skipped, fetched or failed.
BothSettled(id) ==
    /\ calls[id].jar \in {"skipped", "ok", "failed"}
    /\ calls[id].pom \in {"skipped", "ok", "failed"}

\* The descriptor of the call's coordinate is on disk, non-empty, and parses.
DescriptorUsable(id) ==
    /\ disk[LocalFile(calls[id].key, "pom")] = "full"
    /\ calls[id].key \notin graph.bad

\* C18: the files are handled independently. A call that has returned with
\* both files settled and a usable descriptor on disk has recursed into the
\* descriptor's dependencies (the first of them has been looked at),
\* whatever became of the binary.
C18_RecursesWhateverTheBinary ==
    \A id \in DepCalls :
        (/\ calls[id].pc = "returned"
         /\ BothSettled(id)
         /\ DescriptorUsable(id)
         /\ graph.deps[calls[id].key] # << >>)
        => graph.deps[calls[id].key][1] \in visited


\* The state of a file when the one call for its coordinate looks at it:
\* nothing else writes it before (C1).
SeenAtCheck(id, kind) == DiskAtStart(cached, stale)[LocalFile(calls[id].key, kind)]

\* C19: skip-if-exists. For each file of a coordinate a fetch is started
\* exactly when the file is absent or zero-length: a non-empty file is
\* skipped, a zero-length file is fetched again.
C19_FetchIffAbsentOrEmpty ==
    \A id \in DepCalls, kind \in Kinds :
        calls[id][kind] # "unset" =>
            (calls[id][kind] # "skipped" <=> SeenAtCheck(id, kind) \in {"absent", "empty"})

\* C20: descriptor check. A call that has returned with both files settled
\* leaves no zero-length descriptor at its coordinate's descriptor path.
C20_NoEmptyDescriptorLeft ==
    \A id \in DepCalls :
        (calls[id].pc = "returned" /\ BothSettled(id))
        => disk[LocalFile(calls[id].key, "pom")] # "empty"


(***************************************************************************)
(* downloadFile: redirects, outcomes, completion.                          *)
(***************************************************************************)

\* Requests the call has issued: the first, and one more after a redirect.
RequestsIssued ==
    IF net = "response" THEN Len(statuses) + 1 ELSE
    IF statuses = << >> THEN 1 ELSE Len(statuses)

\* C21: one redirect hop. A call issues at most two requests, the second
\* only after a 301/302; when the answer to the second is anything but 200,
\* a redirect included, the call has failed with an error and waits for no
\* further response.
C21_OneRedirectHop ==
    /\ RequestsIssued <= 2
    /\ Len(statuses) = 2 => statuses[1] \in {301, 302}
    /\ (Len(statuses) = 2 /\ statuses[2] # 200) =>
           (promise \in {"notFound", "httpStatus"} /\ net = "closed")

\* A redirect answered by another redirect: rejected with the status.
C21_RedirectOfRedirect ==
    /\ Len(statuses) = 2
    /\ statuses[1] \in {301, 302}
    /\ statuses[2] \in {301, 302}
    /\ promise = "httpStatus"
    /\ net = "closed"


LastStatus(seq) == seq[Len(seq)]

\* The step reports an outcome: the promise settles.
Reports(outcome) == promise = "pending" /\ promise' = outcome

\* The step issues an fs.unlink(dest).
IssuesUnlink == pool'.unlinks = pool.unlinks + 1

\* C23: outcome classification, for the first response and the one after a
\* redirect alike. Not-found is reported exactly for a 404 just received,
\* a status failure for another status that is neither 200 nor a first
\* 301/302, a transport failure for a request 'error' with no response to
\* the request; each of the three comes with an unlink of the destination;
\* success is reported only after a 200. Every terminal response that is
\* not a 200 has been reported under its class.
C23_OutcomeClasses ==
    /\ [][/\ Reports("notFound") =>
               (Len(statuses') = Len(statuses) + 1 /\ LastStatus(statuses') = 404
                /\ IssuesUnlink)
          /\ Reports("httpStatus") =>
               (Len(statuses') = Len(statuses) + 1
                /\ LastStatus(statuses') \notin {200, 404}
                /\ (Len(statuses') = 1 => LastStatus(statuses') \notin {301, 302})
                /\ IssuesUnlink)
          /\ Reports("error") => (statuses' = statuses /\ IssuesUnlink)
          /\ Reports("resolved") => (statuses # << >> /\ LastStatus(statuses) = 200)
         ]_vars
    /\ [](\A i \in 1..Len(statuses) :
             /\ statuses[i] = 404 => promise = "notFound"
             /\ (statuses[i] \notin {200, 404} /\ (i = 1 => statuses[i] \notin {301, 302}))
                   => promise = "httpStatus")

\* Each class has been reported once after a redirect, and a 404 directly.
C23_NotFoundAfterRedirect ==
    /\ Len(statuses) = 2
    /\ statuses[2] = 404
    /\ promise = "notFound"
    /\ pool.unlinks = 2

\* C24: completion on a 200. Whenever the call has reported success, every
\* chunk of the body has been written to the file and the write stream has
\* been closed.
C24_SuccessAfterFlushAndClose ==
    promise = "resolved" => (stream.written = bodyLen /\ stream.closed)

(***************************************************************************)
(* The walker: retries, batches, quiescence.                               *)
(***************************************************************************)

\* A fetch of the file has failed.
FetchFailedFor(k, kind) ==
    \E id \in DepCalls : calls[id].key = k /\ calls[id][kind] = "failed"

MaxList == 5

\* A list of n distinct entries.
Entries == <<"e1", "e2", "e3", "e4", "e5", "e6", "e7", "e8">>

Iota(n) == SubSeq(Entries, 1, n)

\* The dependency lists of the run, and lists of every length up to MaxList.
BatchedLists ==
    {graph.root} \cup {graph.deps[k] : k \in Keys} \cup {Iota(n) : n \in 0..MaxList}

RECURSIVE ConcatChunks(_, _)
ConcatChunks(L, b) ==
    IF b > NumChunks(L) THEN << >> ELSE Chunk(L, b) \o ConcatChunks(L, b + 1)

\* C25: batching is a partition. The chunks of every list are consecutive
\* slices of at most N entries, all but the last of exactly N, none empty,
\* and their concatenation in order is the list; every call that was
\* dispatched stands for the list entry at its own position, in the chunk
\* its caller was awaiting or an earlier one.
C25_BatchingIsPartition ==
    /\ \A L \in BatchedLists :
         /\ ConcatChunks(L, 1) = L
         /\ \A b \in 1..NumChunks(L) :
              /\ Len(Chunk(L, b)) >= 1
              /\ Len(Chunk(L, b)) <= CONCURRENT_DOWNLOADS
              /\ b < NumChunks(L) => Len(Chunk(L, b)) = CONCURRENT_DOWNLOADS
              /\ \A i \in 1..Len(Chunk(L, b)) :
                   Chunk(L, b)[i] = L[(b - 1) * CONCURRENT_DOWNLOADS + i]
    /\ \A id \in DepCalls :
         LET p == Parent(id)
             L == DepsOf(p, calls)
         IN /\ id[Len(id)] \in 1..Len(L)
            /\ calls[id].key = L[id[Len(id)]]
            /\ ChunkOf(id) <= calls[p].batch
            /\ ChunkOf(id) \in 1..NumChunks(L)

\* A three-entry list was walked in two chunks: the call for its third
\* entry was dispatched in the second.
C25_SecondChunkDispatched ==
    /\ graph = GraphWide
    /\ \E id \in DepCalls :
         /\ Parent(id) = MainId
         /\ id[Len(id)] = Len(graph.root)
         /\ calls[id].key = "C"
    /\ calls[MainId].batch = NumChunks(graph.root)


(***************************************************************************)
(* Manifests: the dependency list and the property table.                  *)
(***************************************************************************)

\* The entry has a group element, an artifact element and a resolved
\* version: the version is there, not null and not the empty text.
Complete(e) ==
    /\ e.groupId.t = "str"
    /\ e.artifactId.t = "str"
    /\ e.version # << >>
    /\ e.version[1].t = "str"
    /\ e.version[1].s # << >>

\* Positions of the complete entries of the block.
CompleteAt == {i \in 1..Len(pomObj.entries) : Complete(pomObj.entries[i])}

\* The position of the j-th complete entry.
NthComplete(j) ==
    CHOOSE i \in CompleteAt : Cardinality({h \in CompleteAt : h < i}) = j - 1

\* C26: getDependencies. The list returned holds the complete entries of
\* the dependency block and no others, in document order, each with its
\* group, artifact and resolved version; a manifest that is null, has no
\* dependency block or an empty one gives the empty list.
C26_ListsCompleteEntries ==
    rpc \in {"listed", "located"} =>
        /\ pomObj.block # "entries" => dependencies = << >>
        /\ Len(dependencies) = Cardinality(CompleteAt)
        /\ \A j \in 1..Len(dependencies) :
             LET e == pomObj.entries[NthComplete(j)]
             IN /\ dependencies[j].groupId = e.groupId
                /\ dependencies[j].artifactId = e.artifactId
                /\ dependencies[j].version = e.version[1]

\* A block of two entries whose first lacks its version: the second alone
\* is returned.
C26_IncompleteDropped ==
    /\ rpc = "listed"
    /\ pomObj.block = "entries"
    /\ Len(pomObj.entries) = 2
    /\ ~Complete(pomObj.entries[1])
    /\ Complete(pomObj.entries[2])
    /\ Len(dependencies) = 1
    /\ dependencies[1].artifactId = pomObj.entries[2].artifactId

\* The version came out of parsePomXml.
Parsed == rpc \notin {"idle", "input"}

\* C27: resolution is local and without side effects. No step changes a
\* property table; the resolved version is the one that the expression and
\* the declaring document's own table determine, whatever the root
\* manifest's table holds: a reference that the own table cannot resolve
\* is null even when the root table has the property.
C27_ResolutionIsLocal ==
    /\ [][pom' = pom /\ rootProperties' = rootProperties]_vars
    /\ [](Parsed => parsed = parsePomVersion(pom.version, pom.properties))
    /\ []((Parsed /\ pom.properties = << >> /\ IsPropertyRef(pom.version))
             => parsed = <<Null>>)

\* A reference to a property that only the root manifest defines came out
\* null.
C27_RootPropertyIgnored ==
    /\ Parsed
    /\ pom.properties = << >>
    /\ pom.version = Str(<<"$", "{", "a", "}">>)
    /\ <<"a">> \in DOMAIN rootProperties
    /\ parsed = <<Null>>


\* The direct child calls of activation p that have not settled.
ActiveChildren(p) ==
    {id \in DepCalls : Parent(id) = p /\ calls[id].pc \in {"mkdirp", "fetching", "walking"}}

\* C28: per-parent fan-out. Of the downloadDependency calls that one
\* activation (a coordinate being walked, or main) made for its own list,
\* at most CONCURRENT_DOWNLOADS are active at a time.
C28_FanOutPerParent ==
    \A p \in DOMAIN calls : Cardinality(ActiveChildren(p)) <= CONCURRENT_DOWNLOADS

\* main, whose list is longer than the ceiling, has a full chunk of active
\* children and the rest of its list still to dispatch.
C28_FullChunkActive ==
    /\ Len(graph.root) > CONCURRENT_DOWNLOADS
    /\ Cardinality(ActiveChildren(MainId)) = CONCURRENT_DOWNLOADS
    /\ calls[MainId].batch < NumChunks(graph.root)


\* The downloadDependency calls that have not settled.
ActiveCalls == {id \in DepCalls : calls[id].pc \in {"mkdirp", "fetching", "walking"}}

\* C29: quiescence at the end of a run. When main is past its last chunk
\* (main.js:396), no downloadFile call is in flight and no
\* downloadDependency call is active.
C29_QuiescentAtEnd == mainPc = "done" => (InFlight = 0 /\ ActiveCalls = {})


(***************************************************************************)
(* The sequential walker (main.js:573-662, 763-808)                        *)
(*                                                                         *)
(* The sequential variant awaits one thing at a time, so for a fixed       *)
(* environment it has one run, computed here as a function. The            *)
(* environment is the one the batch-concurrent run met: what each settled  *)
(* downloadFile call did and what each settled mkdirp did. Where the       *)
(* sequential run asks for something the concurrent run never saw settle,  *)
(* the comparison is left open (known = FALSE).                            *)
(***************************************************************************)

\* What the downloadFile call for this file did in the run, "unknown" when
\* no such call has settled. A descriptor that arrived empty has been
\* removed again by main.js:217-221.
ObservedOutcome(k, kind) ==
    IF \E id \in DepCalls : calls[id].key = k /\ calls[id][kind] \in {"ok", "failed"}
    THEN LET id   == CHOOSE c \in DepCalls :
                         calls[c].key = k /\ calls[c][kind] \in {"ok", "failed"}
             left == disk[LocalFile(k, kind)]
         IN IF calls[id][kind] = "ok"
            THEN (IF left = "full" THEN "full" ELSE "empty")
            ELSE (IF left = "absent" THEN "failClean" ELSE "failLeft")
    ELSE "unknown"

\* What mkdirp did for the directory of this coordinate (main.js:181).
ObservedMkdirp(k) ==
    IF \E id \in DepCalls : calls[id].key = k /\ calls[id].pc = "rejected"
    THEN "failed"
    ELSE IF \E id \in DepCalls : calls[id].key = k /\ calls[id].pc # "mkdirp"
    THEN "ok"
    ELSE "unknown"

\* Whether ./pom.xml was read and parsed (main.js:365): main exits before
\* any call only when it was not.
ObservedRootOk == ~(mainPc = "exited" /\ DepCalls = {})

\* main.js:612-634: one file of a coordinate. A file that is there is
\* skipped; otherwise downloadFile is awaited, and its rejection is thrown.
SeqFetch(st, k, kind) ==
    LET f == LocalFile(k, kind)
        o == ObservedOutcome(k, kind)
    IN IF st.disk[f] # "absent" THEN st
       ELSE IF o = "unknown" THEN [st EXCEPT !.known = FALSE]
       ELSE [st EXCEPT !.disk[f] = FetchLeaves(o),
                       !.threw = (FetchStatus(o) = "failed")]

RECURSIVE SeqDownloadDependency(_, _), SeqEach(_, _, _)

\* main.js:573-662: downloadDependency of the sequential variant. The
\* visited check and insert (584-590), mkdirp outside the try (605), the
\* binary and then the descriptor (612-634, a rejection caught at 659), the
\* descriptor check (637-646), and the for-of loop over the transitive
\* dependencies, whose exceptions are caught at 655.
SeqDownloadDependency(k, st) ==
    IF ~st.known \/ k \in st.visited THEN st
    ELSE LET s1 == [st EXCEPT !.visited = @ \cup {k}]
             mk == ObservedMkdirp(k)
         IN IF mk = "unknown" THEN [s1 EXCEPT !.known = FALSE]
            ELSE IF mk = "failed" THEN [s1 EXCEPT !.threw = TRUE]
            ELSE LET s2 == SeqFetch(s1, k, "jar")
                 IN IF ~s2.known THEN s2
                    ELSE IF s2.threw THEN [s2 EXCEPT !.threw = FALSE]
                    ELSE LET s3   == SeqFetch(s2, k, "pom")
                             pomF == LocalFile(k, "pom")
                         IN IF ~s3.known THEN s3
                            ELSE IF s3.threw THEN [s3 EXCEPT !.threw = FALSE]
                            ELSE CASE s3.disk[pomF] = "absent" -> s3
                                   [] s3.disk[pomF] = "empty"  ->
                                        [s3 EXCEPT !.disk[pomF] = "absent"]
                                   [] s3.disk[pomF] = "full"   ->
                                        IF k \in graph.bad THEN s3
                                        ELSE [SeqEach(graph.deps[k], 1, s3)
                                                 EXCEPT !.threw = FALSE]

\* main.js:650-652 and 796-803: the dependencies one after the other, each
\* awaited before the next starts; an exception leaves the loop.
SeqEach(L, i, st) ==
    IF i > Len(L) \/ st.threw \/ ~st.known THEN st
    ELSE SeqEach(L, i + 1, SeqDownloadDependency(L[i], st))

\* main.js:763-808: main of the sequential variant, from the repository
\* directory the concurrent run started from.
SeqMain ==
    LET st0 == [visited |-> {}, disk |-> DiskAtStart(cached, stale),
                threw |-> FALSE, known |-> TRUE]
    IN IF ObservedRootOk THEN SeqEach(graph.root, 1, st0)
       ELSE [st0 EXCEPT !.threw = TRUE]

\* The batch-concurrent run is over: the process has exited, or main is past
\* its last chunk and no downloadDependency call can run any further.
RunEnded == mainPc = "exited" \/ (mainPc = "done" /\ ActiveCalls = {})

\* C30: equivalence of the two walkers on the visited set. When the
\* batch-concurrent run is over, under whatever interleaving it took, the
\* sequential walker run in the same environment (same graph, same starting
\* directory, same outcome for every download and every mkdirp) ends with
\* the same set of coordinate keys in downloadedDependencies.
C30_SameVisitedSet == (RunEnded /\ SeqMain.known) => SeqMain.visited = visited

\* The same comparison over the runs in which every mkdirp succeeded.
C30_SameWhenDirectoriesCreated ==
    (RunEnded /\ SeqMain.known /\ \A id \in DepCalls : calls[id].pc # "rejected")
        => SeqMain.visited = visited

\* A finished walk of several coordinates on which the two walkers agree.
C30_Compared ==
    /\ RunEnded
    /\ SeqMain.known
    /\ Cardinality(visited) >= 3
    /\ SeqMain.visited = visited

====
